---- MODULE Spec2Model ----
(***************************************************************************)
(* Model of the dictionary lookup tool (src/src/main.rs).                  *)
(*                                                                         *)
(* Two flows are modelled.  The main flow is the body of main: read the    *)
(* word, query the dictionary, collect the audio locators, render the      *)
(* page, spawn the audio task, print the page, return; then the runtime    *)
(* shuts down and the process terminates.  The audio flow is the task      *)
(* handed to tokio::spawn: create the scratch directory, start one         *)
(* download per locator, join them all, select, play, sleep.               *)
(*                                                                         *)
(* Strings are sequences of one-character strings so that split("/"),      *)
(* last() and ends_with("us.mp3") are computed character by character.     *)
(***************************************************************************)
EXTENDS Naturals, Integers, Sequences, FiniteSets, TLC

VARIABLES
    mainPc,         \* position of the main flow
    exitStatus,     \* how the body of main ended: "running", "ok", "err", "panic"
    queryResponse,  \* what the dictionary service answered, "none" before the query
    words,          \* the decoded Vec<Word>, held from the query to the render
    all_audio_url,  \* the HashSet<String> of audio locators
    page,           \* None until the page is rendered, then Some(page)
    displayed,      \* TRUE once the pager has printed the page
    audioPc,        \* position of the spawned audio task
    tempDir,        \* "none", "exists", "removed"
    futures,        \* the locators in the order the download futures were created
    downloads,      \* locator -> state of its download future
    created,        \* <<file_path, locator>>: the task of locator created file_path
    audio,          \* the selection: None until a candidate is selected, then Some(candidate)
    played,         \* TRUE once play_raw has accepted the winning candidate
    elapsed         \* seconds of the playback sleep that have passed

vars == <<mainPc, exitStatus, queryResponse, words, all_audio_url, page, displayed,
          audioPc, tempDir, futures, downloads, created, audio, played, elapsed>>

mainVars == <<mainPc, exitStatus, queryResponse, words, all_audio_url, page, displayed>>
audioVars == <<audioPc, tempDir, futures, downloads, created, audio, played, elapsed>>

----------------------------------------------------------------------------
(* Bounds of the model.                                                    *)

\* Largest number of entries in the list the dictionary query returns.
MaxWords == 2
\* Largest number of phonetic variants in the whole list.
MaxPhonetics == 3

\* Duration::from_secs(1): the playback sleep, in seconds.
GracePeriod == 1

----------------------------------------------------------------------------
(* Strings.                                                                *)

\* The separator of url.split("/").
Slash == "/"

\* The suffix of file_name.ends_with("us.mp3").
UsSuffix == <<"u", "s", ".", "m", "p", "3">>

\* The audio locators a response may carry: "a/h-us.mp3", "b/h-us.mp3" (the
\* same file name on another host), "a/g-us.mp3" and "a/h-uk.mp3".
UrlUsA == <<"a", "/", "h", "-", "u", "s", ".", "m", "p", "3">>
UrlUsB == <<"b", "/", "h", "-", "u", "s", ".", "m", "p", "3">>
UrlUsG == <<"a", "/", "g", "-", "u", "s", ".", "m", "p", "3">>
UrlUk == <<"a", "/", "h", "-", "u", "k", ".", "m", "p", "3">>
Urls == {UrlUsA, UrlUsB, UrlUsG, UrlUk}

\* str::ends_with
EndsWith(s, suffix) ==
    /\ Len(suffix) <= Len(s)
    /\ SubSeq(s, Len(s) - Len(suffix) + 1, Len(s)) = suffix

\* url.split("/").last(): the characters after the last separator, the whole
\* string when it has none (split always yields at least one piece).
RECURSIVE LastSegmentFrom(_, _)
LastSegmentFrom(s, i) ==
    IF i = 0 THEN s
    ELSE IF s[i] = Slash THEN SubSeq(s, i + 1, Len(s))
    ELSE LastSegmentFrom(s, i - 1)

FileName(url) == LastSegmentFrom(url, Len(url))

\* temp_dir.path().join(file_name)
FilePath(url) == <<"tmp", FileName(url)>>

----------------------------------------------------------------------------
(* Data.                                                                   *)

RECURSIVE SeqsUpTo(_, _)
SeqsUpTo(S, n) ==
    IF n = 0 THEN {<<>>}
    ELSE LET shorter == SeqsUpTo(S, n - 1)
         IN  shorter \cup {Append(q, x) : q \in {r \in shorter : Len(r) = n - 1}, x \in S}

\* struct Phonetic, reduced to the field the program reads.
Phonetic == [audio : Urls]

\* struct Word, reduced to its phonetics.
MkWord(ps) == [phonetics |-> ps]

\* The ways to share the phonetic variants ps, in order, among n entries (an
\* entry may have none).
RECURSIVE Entries(_, _)
Entries(ps, n) ==
    IF n = 0 THEN (IF ps = <<>> THEN {<<>>} ELSE {})
    ELSE UNION {{<<MkWord(SubSeq(ps, 1, i))>> \o rest :
                    rest \in Entries(SubSeq(ps, i + 1, Len(ps)), n - 1)} :
                i \in 0..Len(ps)}

\* The lists a successful dictionary query may decode to.
WordLists ==
    UNION {Entries(ps, n) : ps \in SeqsUpTo(Phonetic, MaxPhonetics), n \in 0..MaxWords}

\* Variant: only the first entry's phonetic variants are read.
FirstEntryAudio(ws) ==
    IF ws = <<>> THEN <<>>
    ELSE [i \in 1..Len(Head(ws).phonetics) |-> Head(ws).phonetics[i].audio]

\* words.iter().flat_map(|word| word.phonetics.iter()).map(|p| p.audio.clone())
RECURSIVE FlatAudio(_)
FlatAudio(ws) ==
    IF ws = <<>> THEN <<>>
    ELSE [i \in 1..Len(Head(ws).phonetics) |-> Head(ws).phonetics[i].audio]
         \o FlatAudio(Tail(ws))

\* .collect::<HashSet<String>>(): insert the items one by one; inserting a value
\* the set already holds leaves it unchanged.
RECURSIVE CollectHashSet(_)
CollectHashSet(items) ==
    IF items = <<>> THEN {}
    ELSE LET rest == CollectHashSet(SubSeq(items, 1, Len(items) - 1))
             x == items[Len(items)]
         IN  IF x \in rest THEN rest ELSE rest \cup {x}

\* WordTemplate { words }.render(): the page lists the phonetic variants of the
\* entries.
Render(ws) == [variants |-> Len(FlatAudio(ws))]

----------------------------------------------------------------------------
(* The resolver's pure parts.                                              *)

\* Option<T>
None == <<>>
Some(x) == <<x>>

\* The iteration orders of a HashSet: every element once, in an order that
\* depends on the hasher's per-process random keys.
RECURSIVE IterOrders(_)
IterOrders(S) ==
    IF S = {} THEN {<<>>}
    ELSE UNION {{<<x>> \o rest : rest \in IterOrders(S \ {x})} : x \in S}

\* A download future that has not been started, or is waiting on the file
\* system or the network, is not terminal; one that returned is.
Terminal(d) == d.state \in {"Ok", "IoError", "ReqwestError"}

\* Variant: a race, ready as soon as one future has returned.
SelectReady(ds) == \E u \in DOMAIN ds : Terminal(ds[u])

\* futures::future::join_all(futures).await returns once every future has
\* returned, with the outputs in the order of the futures.
JoinAllReady(ds) == \A u \in DOMAIN ds : Terminal(ds[u])

\* .filter(|output| output.is_ok())
IsOk(d) == d.state = "Ok"

\* Ok((file_name.to_owned(), file_path))
Output(url) == [file_name |-> FileName(url), file_path |-> FilePath(url)]

\* Variant: no filter on the file name.
MatchesAny(candidate) == TRUE

\* .filter(|(file_name, _)| file_name.ends_with("us.mp3"))
Matches(candidate) == EndsWith(candidate.file_name, UsSuffix)

\* Variant: one failed download fails the whole join, and nothing is selected.
FirstMatchOrAbort(order, ds) ==
    LET hits == {i \in 1..Len(order) : IsOk(ds[order[i]]) /\ Matches(Output(order[i]))}
    IN  IF (\E i \in 1..Len(order) : ~IsOk(ds[order[i]])) \/ hits = {}
        THEN None
        ELSE Some(Output(order[CHOOSE i \in hits : \A j \in hits : i <= j]))

\* .filter(is_ok).map(unwrap).filter(ends_with).next() over the outputs of
\* join_all, which are in the order of the futures.
RECURSIVE FirstMatch(_, _)
FirstMatch(order, ds) ==
    IF order = <<>> THEN None
    ELSE IF IsOk(ds[Head(order)]) /\ Matches(Output(Head(order)))
         THEN Some(Output(Head(order)))
         ELSE FirstMatch(Tail(order), ds)

\* What one download future returns, from what the network and the scratch
\* file did: reqwest::get(&url).await? fails only when no response arrives
\* (the status of a response is not examined), item? fails on a broken body
\* stream, copy(..).await? on a failed write.
FetchResult(outcome) ==
    CASE outcome = "unreachable"   -> [state |-> "ReqwestError", status |-> "none"]
      [] outcome = "chunk_error"   -> [state |-> "ReqwestError", status |-> "none"]
      [] outcome = "write_error"   -> [state |-> "IoError", status |-> "none"]
      [] outcome = "body_success"  -> [state |-> "Ok", status |-> "success"]
      [] outcome = "body_failure"  -> [state |-> "Ok", status |-> "failure"]

FetchOutcomes == {"unreachable", "chunk_error", "write_error", "body_success", "body_failure"}

\* Variant: a body that does not decode is taken for an empty list.
QueryFailsUnreachable(response) == response = "unreachable"

\* .send().await?.json().await?: the query fails when no response arrives or
\* the body does not decode into Vec<Word>.
QueryFails(response) == response \in {"unreachable", "undecodable"}

\* The lists the body of a response may be decoded to.
Decoded(response) == IF response = "decoded" THEN WordLists ELSE {<<>>}

\* The audio task is parked at an await (and is dropped there when the runtime
\* shuts down) before its first poll and while join_all waits for a download;
\* from the return of join_all to its end it runs without awaiting.
TaskParked ==
    \/ audioPc \in {"none", "spawned", "done", "dir_panicked", "play_panicked", "cancelled"}
    \/ audioPc = "joining" /\ ~JoinAllReady(downloads)

\* Variant: main awaits the audio task before it returns.
TaskFinished == audioPc \in {"none", "done", "dir_panicked", "play_panicked", "cancelled"}

\* Variant: the runtime is shut down without waiting for its workers.
NoWait == TRUE

\* Dropping the runtime at the end of main blocks until the worker threads have
\* stopped; a worker stops when the poll it is running returns.
WorkersStopped == TaskParked

----------------------------------------------------------------------------
(* The main flow.                                                          *)

Init ==
    /\ mainPc = "start"
    /\ exitStatus = "running"
    /\ queryResponse = "none"
    /\ words = <<>>
    /\ all_audio_url = {}
    /\ page = None
    /\ displayed = FALSE
    /\ audioPc = "none"
    /\ tempDir = "none"
    /\ futures = <<>>
    /\ downloads = <<>>
    /\ created = {}
    /\ audio = None
    /\ played = FALSE
    /\ elapsed = 0

\* The body of main ends (by return or by panic): the runtime starts shutting down.
EndMain(status) ==
    /\ mainPc' = "shutdown"
    /\ exitStatus' = status

\* env::args().skip(1).next().expect("word not provided")
ReadArg ==
    /\ mainPc = "start"
    /\ \E given \in BOOLEAN :
          IF given THEN mainPc' = "arg" /\ UNCHANGED exitStatus
          ELSE EndMain("panic")
    /\ UNCHANGED <<queryResponse, words, all_audio_url, page, displayed>>
    /\ UNCHANGED audioVars

\* client.get(..).send().await?.json().await?
Query ==
    /\ mainPc = "arg"
    /\ \E response \in {"unreachable", "undecodable", "decoded"} :
          /\ queryResponse' = response
          /\ IF QueryFails(response)
             THEN EndMain("err") /\ UNCHANGED words
             ELSE /\ mainPc' = "queried"
                  /\ UNCHANGED exitStatus
                  /\ words' \in Decoded(response)
    /\ UNCHANGED <<all_audio_url, page, displayed>>
    /\ UNCHANGED audioVars

\* Lines 84-92: collect the locators into the HashSet and render the page.
Prepare ==
    /\ mainPc = "queried"
    /\ all_audio_url' = CollectHashSet(FlatAudio(words))
    /\ page' = Some(Render(words))
    /\ words' = <<>>
    /\ mainPc' = "prepared"
    /\ UNCHANGED <<exitStatus, queryResponse, displayed>>
    /\ UNCHANGED audioVars

\* tokio::spawn(async move { .. }): the task is queued, main does not wait.
Spawn ==
    /\ mainPc = "prepared"
    /\ audioPc' = "spawned"
    /\ mainPc' = "spawned"
    /\ UNCHANGED <<exitStatus, queryResponse, words, all_audio_url, page, displayed>>
    /\ UNCHANGED <<tempDir, futures, downloads, created, audio, played, elapsed>>

\* bat::PrettyPrinter::new()...print().unwrap(): the pager prints the page.  It
\* waits for no task; print() is taken to return Ok, the pager being outside
\* the program.
Display ==
    /\ mainPc = "spawned"
    /\ mainPc' = "printed"
    /\ displayed' = TRUE
    /\ UNCHANGED <<exitStatus, queryResponse, words, all_audio_url, page>>
    /\ UNCHANGED audioVars

\* Ok(())
Return ==
    /\ mainPc = "printed"
    /\ EndMain("ok")
    /\ UNCHANGED <<queryResponse, words, all_audio_url, page, displayed>>
    /\ UNCHANGED audioVars

\* The runtime is dropped and the process terminates: a parked audio task is
\* dropped unfinished, and with it the scratch directory.
Terminate ==
    /\ mainPc = "shutdown"
    /\ WorkersStopped
    /\ mainPc' = "exited"
    /\ audioPc' = IF audioPc \in {"spawned", "joining"} THEN "cancelled" ELSE audioPc
    /\ tempDir' = IF tempDir = "exists" THEN "removed" ELSE tempDir
    /\ UNCHANGED <<exitStatus, queryResponse, words, all_audio_url, page, displayed>>
    /\ UNCHANGED <<futures, downloads, created, audio, played, elapsed>>

----------------------------------------------------------------------------
(* The audio task.                                                         *)

\* The process is alive: a task runs only on a runtime that has not been dropped.
Alive == mainPc # "exited"

\* The task returns or unwinds: temp_dir goes out of scope and is removed.
EndTask(pc) ==
    /\ audioPc' = pc
    /\ tempDir' = IF tempDir = "exists" THEN "removed" ELSE tempDir

\* Lines 95-100, the first poll: create the scratch directory, then one
\* download future per element of the set, in the set's iteration order.
AudioStart ==
    /\ Alive
    /\ audioPc = "spawned"
    /\ \E dirOk \in BOOLEAN :
          IF dirOk
          THEN /\ tempDir' = "exists"
               /\ audioPc' = "joining"
               /\ futures' \in IterOrders(all_audio_url)
               /\ downloads' = [u \in all_audio_url |-> [state |-> "pending", status |-> "none"]]
          ELSE /\ EndTask("dir_panicked")
               /\ UNCHANGED <<futures, downloads>>
    /\ UNCHANGED <<created, audio, played, elapsed>>
    /\ UNCHANGED mainVars

\* Lines 50-53 of download_audio_file: derive the file name and the path,
\* create (and truncate) the file.  A path with an empty file name is the
\* directory itself and cannot be created.
DownloadCreate(u) ==
    /\ Alive
    /\ audioPc = "joining"
    /\ u \in DOMAIN downloads
    /\ downloads[u].state = "pending"
    /\ \E fileOk \in BOOLEAN :
          IF fileOk /\ FileName(u) # <<>>
          THEN /\ created' = created \cup {<<FilePath(u), u>>}
               /\ downloads' = [downloads EXCEPT ![u].state = "created"]
          ELSE /\ downloads' = [downloads EXCEPT ![u].state = "IoError"]
               /\ UNCHANGED created
    /\ UNCHANGED <<audioPc, tempDir, futures, audio, played, elapsed>>
    /\ UNCHANGED mainVars

\* Lines 54-60 of download_audio_file: request the locator and stream the body
\* into the file.
DownloadFetch(u) ==
    /\ Alive
    /\ audioPc = "joining"
    /\ u \in DOMAIN downloads
    /\ downloads[u].state = "created"
    /\ \E outcome \in FetchOutcomes :
          downloads' = [downloads EXCEPT ![u] = FetchResult(outcome)]
    /\ UNCHANGED <<audioPc, tempDir, futures, created, audio, played, elapsed>>
    /\ UNCHANGED mainVars

\* Lines 100-106: join_all has returned; filter and take the first.
Select ==
    /\ Alive
    /\ audioPc = "joining"
    /\ JoinAllReady(downloads)
    /\ audio' = FirstMatch(futures, downloads)
    /\ IF audio' = None THEN EndTask("done") ELSE audioPc' = "selected" /\ UNCHANGED tempDir
    /\ UNCHANGED <<futures, downloads, created, played, elapsed>>
    /\ UNCHANGED mainVars

\* Lines 108-113: open the output stream and the file, decode, play_raw; each
\* of them is unwrapped.
Play ==
    /\ Alive
    /\ audioPc = "selected"
    /\ \E playOk \in BOOLEAN :
          IF playOk
          THEN /\ played' = TRUE
               /\ audioPc' = "sleeping"
               /\ UNCHANGED tempDir
          ELSE /\ EndTask("play_panicked")
               /\ UNCHANGED played
    /\ UNCHANGED <<futures, downloads, created, audio, elapsed>>
    /\ UNCHANGED mainVars

\* Line 115: one second of std::thread::sleep passes.
Tick ==
    /\ Alive
    /\ audioPc = "sleeping"
    /\ elapsed < GracePeriod
    /\ elapsed' = elapsed + 1
    /\ UNCHANGED <<audioPc, tempDir, futures, downloads, created, audio, played>>
    /\ UNCHANGED mainVars

\* Lines 115-117: the sleep is over and the task returns.
Wake ==
    /\ Alive
    /\ audioPc = "sleeping"
    /\ elapsed >= GracePeriod
    /\ EndTask("done")
    /\ UNCHANGED <<futures, downloads, created, audio, played, elapsed>>
    /\ UNCHANGED mainVars

----------------------------------------------------------------------------
(* Specifications.                                                         *)

Next ==
    \/ ReadArg
    \/ Query
    \/ Prepare
    \/ Spawn
    \/ Display
    \/ Return
    \/ Terminate
    \/ AudioStart
    \/ \E u \in Urls : DownloadCreate(u)
    \/ \E u \in Urls : DownloadFetch(u)
    \/ Select
    \/ Play
    \/ Tick
    \/ Wake

Spec == Init /\ [][Next]_vars

\* The steps of main after the query, which wait for nothing but the pager, and
\* the steps of the audio task that run without awaiting, are taken once they
\* can be.  Nothing is assumed of the query and of the downloads: a request may
\* never be answered.
Fairness ==
    /\ WF_vars(Prepare)
    /\ WF_vars(Spawn)
    /\ WF_vars(Display)
    /\ WF_vars(Return)
    /\ WF_vars(Terminate)
    /\ WF_vars(Select)
    /\ WF_vars(Play)
    /\ WF_vars(Tick)
    /\ WF_vars(Wake)

LiveSpec == Init /\ [][Next]_vars /\ Fairness

----------------------------------------------------------------------------
(* Vocabulary of the claims.                                               *)

\* The selection step has been taken.
Selected == audioPc \in {"selected", "sleeping", "done", "play_panicked"}

\* The download tasks have been launched.
Launched == audioPc \notin {"none", "spawned"} /\ tempDir # "none"

Range(q) == {q[i] : i \in 1..Len(q)}

NoDuplicates(q) == \A i, j \in 1..Len(q) : q[i] = q[j] => i = j

Succeeded(u) == downloads[u].state = "Ok"

Failed(u) == downloads[u].state \in {"IoError", "ReqwestError"}

HasSuffix(u) == EndsWith(u, UsSuffix)

\* The locators that were downloaded successfully and carry the suffix.
Playable == {u \in DOMAIN downloads : Succeeded(u) /\ HasSuffix(u)}

----------------------------------------------------------------------------
(* C1.  The resolver launches exactly one download task per distinct audio *)
(* locator of the entries: the set collected from the entries holds every  *)
(* locator of every phonetic variant of every entry, and once the tasks    *)
(* are launched the futures hold each element of that set exactly once and *)
(* each has its own download state.                                        *)
C1_OneDownloadPerLocator ==
    /\ [][mainPc = "queried" /\ mainPc' = "prepared" =>
            all_audio_url' = UNION {{words[i].phonetics[j].audio :
                                        j \in 1..Len(words[i].phonetics)} :
                                    i \in 1..Len(words)}]_vars
    /\ [](Launched => /\ NoDuplicates(futures)
                      /\ Range(futures) = all_audio_url
                      /\ DOMAIN downloads = all_audio_url)

\* Three phonetic variants name two distinct locators, and two downloads were
\* launched.
C1_Witness ==
    /\ Launched
    /\ page # None
    /\ page[1].variants = 3
    /\ Len(futures) = 2

(* C2.  Selection runs only after every launched download task has reached *)
(* a terminal state: once the selection step has been taken, every locator *)
(* of the set has a download that returned Ok or an error.                 *)
C2_SelectionAfterJoin ==
    Selected =>
        /\ DOMAIN downloads = all_audio_url
        /\ \A u \in all_audio_url : Succeeded(u) \/ Failed(u)

\* Selection ran over two downloads, one failed and one successful.
C2_Witness ==
    /\ Selected
    /\ \E u, v \in DOMAIN downloads : Failed(u) /\ Succeeded(v)

(* C3.  Selection is deterministic: the winning candidate is determined by *)
(* the successfully downloaded candidates alone, so that the selection     *)
(* made is the one any iteration order of the set would have made.         *)
C3_SelectionDeterministic ==
    Selected =>
        \A order \in IterOrders(all_audio_url) : FirstMatch(order, downloads) = audio

(* C4, as stated.  If the download of A failed and the download of B       *)
(* succeeded and B carries the suffix, the resolver returns B.             *)
C4_AsStated ==
    Selected =>
        \A a, b \in DOMAIN downloads :
            Failed(a) /\ Succeeded(b) /\ HasSuffix(b) => audio = Some(Output(b))

(* C4, amended.  If the download of A failed and the download of B         *)
(* succeeded and B carries the suffix, the resolver returns a winner, the  *)
(* winner is a successfully downloaded candidate that carries the suffix,  *)
(* and it is B when no successful candidate with the suffix has another    *)
(* file name.                                                              *)
C4_FailureIsolation ==
    Selected =>
        \A a, b \in DOMAIN downloads :
            Failed(a) /\ Succeeded(b) /\ HasSuffix(b) =>
                /\ audio # None
                /\ \E w \in Playable : audio = Some(Output(w))
                /\ (\A w \in Playable : FileName(w) = FileName(b)) => audio = Some(Output(b))

\* A failed first in iteration order, B succeeded and was selected.
C4_Witness ==
    /\ Selected
    /\ Len(futures) = 2
    /\ Failed(futures[1])
    /\ Succeeded(futures[2])
    /\ HasSuffix(futures[2])
    /\ audio = Some(Output(futures[2]))

(* C5.  Each download task writes to its own scratch file: no scratch file *)
(* path is created by the tasks of two distinct locators.                  *)
C5_OwnScratchFile ==
    \A f, g \in created : f[1] = g[1] => f[2] = g[2]

(* C6.  A winning candidate is a successfully downloaded candidate whose   *)
(* locator ends with "us.mp3"; when no successfully downloaded candidate   *)
(* carries the suffix, nothing is selected and the task ends without       *)
(* error.                                                                  *)
C6_WinnerHasSuffix ==
    Selected =>
        /\ audio # None =>
              \E u \in DOMAIN downloads :
                  /\ Succeeded(u)
                  /\ EndsWith(u, UsSuffix)
                  /\ audio = Some(Output(u))
        /\ Playable = {} => audio = None /\ audioPc = "done"

\* The "uk" candidate is first in iteration order and was downloaded, and the
\* "us" candidate is the winner.
C6_Witness ==
    /\ Selected
    /\ Len(futures) = 2
    /\ futures[1] = UrlUk
    /\ Succeeded(UrlUk)
    /\ audio = Some(Output(futures[2]))

(* C7.  A download answered with a non-success status is a failed          *)
(* download: it is not a successfully downloaded candidate, and the winner *)
(* is never a candidate whose download was answered that way.              *)
C7_BadStatusIsFailure ==
    /\ \A u \in DOMAIN downloads : downloads[u].status = "failure" => ~Succeeded(u)
    /\ Selected /\ audio # None =>
          \E u \in DOMAIN downloads :
              downloads[u].status = "success" /\ audio = Some(Output(u))

(* C8.  Once the dictionary query has succeeded, the page is displayed and *)
(* the process ends normally, whatever the downloads do, also when one     *)
(* never finishes.                                                         *)
C8_TextPathCompletes ==
    (mainPc = "queried") ~> (mainPc = "exited" /\ displayed /\ exitStatus = "ok")

\* The process ended normally with the page displayed while a download had
\* not finished and another had failed.
C8_Witness ==
    /\ mainPc = "exited"
    /\ displayed
    /\ exitStatus = "ok"
    /\ \E u, v \in DOMAIN downloads : ~Terminal(downloads[u]) /\ Failed(v)

(* C9.  A failed dictionary query is fatal: when the service is            *)
(* unreachable or the body does not decode, main ends with the error, and  *)
(* no page is rendered or displayed, no scratch directory is created and   *)
(* no audio task or download is started.                                   *)
C9_QueryFailureFatal ==
    queryResponse \in {"unreachable", "undecodable"} =>
        /\ mainPc \in {"shutdown", "exited"}
        /\ exitStatus = "err"
        /\ mainPc = "shutdown" => ENABLED Terminate
        /\ page = None
        /\ ~displayed
        /\ tempDir = "none"
        /\ audioPc = "none"
        /\ futures = <<>>
        /\ DOMAIN downloads = {}
        /\ created = {}

\* The body did not decode and the process has terminated.
C9_Witness ==
    /\ queryResponse = "undecodable"
    /\ mainPc = "exited"

(* C10.  Once the winning candidate has been handed to playback, the       *)
(* process does not terminate before the playback sleep has elapsed.       *)
C10_GracePeriod ==
    mainPc = "exited" /\ played => elapsed >= GracePeriod

\* A candidate was played, the sleep elapsed, the task returned and the process
\* terminated.
C10_Witness ==
    /\ mainPc = "exited"
    /\ played
    /\ elapsed = GracePeriod
    /\ audioPc = "done"

====
